---- MODULE Spec2Model ----
(***************************************************************************)
(* asteroid/metrics.py: get_metrics (the per-utterance metric dictionary)  *)
(* and MetricTracker (the accumulator of per-utterance rows with its CSV   *)
(* export and its final report).                                           *)
(*                                                                         *)
(* Python values are tagged records: None, NaN, exact rationals for the    *)
(* floats, integer arrays for the ndarrays the metrics library returns,    *)
(* and strings.  The metrics library (pb_bss_eval) is the environment: an  *)
(* utterance is the pair of lookup tables InputMetrics and OutputMetrics   *)
(* answer with, each entry a value or a raised exception.                  *)
(***************************************************************************)
EXTENDS Integers, Sequences, FiniteSets, TLC

VARIABLES sample_rate, metrics_list, average, compute_permutation,
          ignore_metrics_errors, series_list, built, gm, last

cfgvars == <<sample_rate, metrics_list, average, compute_permutation,
             ignore_metrics_errors>>
vars == <<sample_rate, metrics_list, average, compute_permutation,
          ignore_metrics_errors, series_list, built, gm, last>>

-----------------------------------------------------------------------------
(* Python values *)

None == [t |-> "None"]
NaN == [t |-> "nan"]
Str(s) == [t |-> "str", v |-> s]
Arr(s) == [t |-> "arr", v |-> s]

Abs(x) == IF x < 0 THEN -x ELSE x

RECURSIVE GCD(_, _)
GCD(a, b) == IF b = 0 THEN a ELSE GCD(b, a % b)

\* the number n/d (d # 0), in lowest terms with a positive denominator
Num(n, d) ==
    LET g == GCD(Abs(n), Abs(d))
        s == IF d < 0 THEN -1 ELSE 1
    IN  [t |-> "num", n |-> (s * n) \div g, d |-> (s * d) \div g]

Int2Num(i) == Num(i, 1)
NumAdd(a, b) == Num(a.n * b.d + b.n * a.d, a.d * b.d)
NumSub(a, b) == Num(a.n * b.d - b.n * a.d, a.d * b.d)
NumDivInt(a, k) == Num(a.n, a.d * k)

IsNull(v) == v.t = "None" \/ v.t = "nan"
IsNum(v) == v.t = "num"

RECURSIVE SumInts(_)
SumInts(s) == IF s = <<>> THEN 0 ELSE Head(s) + SumInts(Tail(s))

EmptyDict == [k \in {} |-> None]

\* update that keeps the value already in d when a key collides
update_keep_existing(d, other) == d @@ other

\* dict.update(other): the keys of other overwrite those of d
update(d, other) == other @@ d

\* dict[key] = value
setitem(d, key, value) == (key :> value) @@ d

-----------------------------------------------------------------------------
(* Metric requests *)

ALL_METRICS == <<"si_sdr", "sdr", "sir", "sar", "stoi", "pesq">>

\* a metrics_list argument: a str, a list or a tuple of metric names
MStr(s) == [t |-> "str", v |-> s]
MList(s) == [t |-> "list", v |-> s]
MTuple(s) == [t |-> "tuple", v |-> s]

\* iterating a Python str yields its characters, a list or tuple its items
Iterate(ml) ==
    IF ml.t = "str" THEN [i \in 1..Len(ml.v) |-> SubSeq(ml.v, i, i)]
    ELSE ml.v

\* normalisation that forgets the "all" sentinel
normalize_without_all(ml) == IF ml.t = "str" THEN <<ml.v>> ELSE ml.v

\* lines 80-83: "all" becomes ALL_METRICS, any other str a one-element list
normalize_metrics_list(ml) ==
    LET m1 == IF ml.t = "str" /\ ml.v = "all" THEN MList(ALL_METRICS) ELSE ml
        m2 == IF m1.t = "str" THEN MList(<<m1.v>>) ELSE m1
    IN  m2.v

Range(s) == {s[i] : i \in 1..Len(s)}

-----------------------------------------------------------------------------
(* The metrics library *)

Raises == [t |-> "raise"]

\* InputMetrics(observation=mix, speech_source=clean, ...)
InputMetrics(utt, sr) == utt.input

\* OutputMetrics(speech_prediction=estimate, speech_source=clean, ...)
OutputMetrics(utt, sr, perm) == utt.output

\* src[metric]: the value, or Raises (a name the library does not know raises)
getitem(src, metric) == IF metric \in DOMAIN src THEN src[metric] ELSE Raises

\* utils.average_arrays_in_dic: arrays become their mean, the rest passes
average_arrays_in_dic(dic) ==
    [k \in DOMAIN dic |->
        IF dic[k].t = "arr" THEN Num(SumInts(dic[k].v), Len(dic[k].v))
        ELSE dic[k]]

-----------------------------------------------------------------------------
(* get_metrics *)

NoExc == [type |-> "none"]

\* filename or '<unknown file>'
Label(filename) ==
    IF filename = None \/ filename = Str("") THEN "<unknown file>"
    ELSE filename.v

\* line 96-97: (src, prefix) over input then output, each over metrics_list
LoopSteps(utt, sr, perm, names) ==
    [i \in 1..(2 * Len(names)) |->
        IF i <= Len(names)
        THEN [src |-> InputMetrics(utt, sr), prefix |-> "input_",
              metric |-> names[i]]
        ELSE [src |-> OutputMetrics(utt, sr, perm), prefix |-> "",
              metric |-> names[i - Len(names)]]]

\* the loop with the strict branch lost: a failure is always nulled
RECURSIVE MetricsLoop_swallow(_, _, _, _, _)
MetricsLoop_swallow(steps, i, utt_metrics, ignore, filename) ==
    IF i > Len(steps) THEN [exc |-> NoExc, utt_metrics |-> utt_metrics]
    ELSE
      LET key == steps[i].prefix \o steps[i].metric
          val == getitem(steps[i].src, steps[i].metric)
      IN  MetricsLoop_swallow(steps, i + 1,
              setitem(utt_metrics, key, IF val # Raises THEN val ELSE None),
              ignore, filename)

\* the loop leaving at the first tolerated failure instead of going on
RECURSIVE MetricsLoop_break(_, _, _, _, _)
MetricsLoop_break(steps, i, utt_metrics, ignore, filename) ==
    IF i > Len(steps) THEN [exc |-> NoExc, utt_metrics |-> utt_metrics]
    ELSE
      LET key == steps[i].prefix \o steps[i].metric
          val == getitem(steps[i].src, steps[i].metric)
      IN  IF val # Raises
          THEN MetricsLoop_break(steps, i + 1, setitem(utt_metrics, key, val),
                                 ignore, filename)
          ELSE IF ignore
          THEN [exc |-> NoExc, utt_metrics |-> setitem(utt_metrics, key, None)]
          ELSE [exc |-> [type |-> "RuntimeError", key |-> key,
                         msg |-> "Error computing " \o key \o " for "
                                    \o Label(filename)],
                utt_metrics |-> utt_metrics]

\* lines 99-113, one pass of the loop body from step i on
RECURSIVE MetricsLoop(_, _, _, _, _)
MetricsLoop(steps, i, utt_metrics, ignore, filename) ==
    IF i > Len(steps) THEN [exc |-> NoExc, utt_metrics |-> utt_metrics]
    ELSE
      LET key == steps[i].prefix \o steps[i].metric
          val == getitem(steps[i].src, steps[i].metric)
      IN  IF val # Raises
          THEN MetricsLoop(steps, i + 1, setitem(utt_metrics, key, val),
                           ignore, filename)
          ELSE IF ignore
          THEN MetricsLoop(steps, i + 1, setitem(utt_metrics, key, None),
                           ignore, filename)
          ELSE [exc |-> [type |-> "RuntimeError", key |-> key,
                         msg |-> "Error computing " \o key \o " for "
                                    \o Label(filename)],
                utt_metrics |-> utt_metrics]

get_metrics(utt, sr, ml, avg, perm, ignore, filename) ==
    LET names == normalize_metrics_list(ml)
        r == MetricsLoop(LoopSteps(utt, sr, perm, names), 1, EmptyDict,
                         ignore, filename)
    IN  IF r.exc # NoExc THEN [exc |-> r.exc]
        ELSE [exc |-> NoExc,
              ret |-> IF avg THEN average_arrays_in_dic(r.utt_metrics)
                      ELSE r.utt_metrics]

-----------------------------------------------------------------------------
(* pandas: DataFrame(series_list), column access, Series arithmetic, mean *)

\* the columns of pd.DataFrame(series_list): every key of every row
Columns(sl) == UNION {DOMAIN sl[i] : i \in 1..Len(sl)}

\* all_metrics_df[name]: one cell per row, NaN where the row lacks the key
Column(sl, name) ==
    [i \in 1..Len(sl) |-> IF name \in DOMAIN sl[i] THEN sl[i][name] ELSE NaN]

\* a cell pair pandas cannot subtract: both present and not both numbers
SubRaises(a, b) ==
    \E i \in 1..Len(a) :
        ~IsNull(a[i]) /\ ~IsNull(b[i]) /\ ~(IsNum(a[i]) /\ IsNum(b[i]))

\* the subtraction with its operands swapped
SeriesSub_swapped(a, b) ==
    [i \in 1..Len(a) |->
        IF IsNull(a[i]) \/ IsNull(b[i]) THEN NaN ELSE NumSub(b[i], a[i])]

\* a - b on two columns: NaN where either side is null
SeriesSub(a, b) ==
    [i \in 1..Len(a) |->
        IF IsNull(a[i]) \/ IsNull(b[i]) THEN NaN ELSE NumSub(a[i], b[i])]

RECURSIVE SumNums(_)
SumNums(s) ==
    IF s = <<>> THEN Int2Num(0) ELSE NumAdd(Head(s), SumNums(Tail(s)))

NotNull(v) == ~IsNull(v)

\* a column Series.mean() cannot reduce: a cell that is neither null nor a number
MeanRaises(col) == \E i \in 1..Len(col) : ~IsNull(col[i]) /\ ~IsNum(col[i])

\* Series.mean(): nulls are skipped, NaN when nothing is left
SeriesMean(col) ==
    LET kept == SelectSeq(col, NotNull)
    IN  IF kept = <<>> THEN NaN
        ELSE NumDivInt(SumNums(kept), Len(kept))

-----------------------------------------------------------------------------
(* MetricTracker *)

MaxRows == 2

\* the metric configurations a tracker is built with
MetricConfigs ==
    { MTuple(ALL_METRICS), MTuple(<<"sdr", "stoi">>), MStr("sdr") }

\* the model follows trackers that average, the default of the constructor
SampleRates == {16000}
AverageFlags == {TRUE}
PermutationFlags == {FALSE}

NoCall == [done |-> FALSE]

\* MetricTracker.__init__
MetricTracker_init ==
    /\ sample_rate \in SampleRates
    /\ metrics_list \in MetricConfigs
    /\ average \in AverageFlags
    /\ compute_permutation \in PermutationFlags
    /\ ignore_metrics_errors \in BOOLEAN
    /\ series_list = <<>>
    /\ built = <<>>
    /\ gm = NoCall
    /\ last = [op |-> "init"]

\* what the library answers for the utterances recorded with the tracker
LibTable(value, failing) ==
    [m \in Range(ALL_METRICS) |-> IF m \in failing THEN Raises ELSE value]

TrackerUtts ==
    { [input |-> LibTable(Int2Num(1), {}), output |-> LibTable(Int2Num(2), {})],
      [input |-> LibTable(Arr(<<1, 2>>), {}),
       output |-> LibTable(Arr(<<3, 5>>), {})],
      [input |-> LibTable(Int2Num(1), {"sdr"}),
       output |-> LibTable(Int2Num(2), {"stoi"})] }

Filenames == {None, Str("a.wav")}

\* the **kwargs of a record call
ExtraFields ==
    { EmptyDict, "mix_path" :> Str("mix.wav"), "sdr" :> Int2Num(9) }

\* an append that skips a row equal to one already held
append_dedup(sl, row) == IF row \in Range(sl) THEN sl ELSE Append(sl, row)

\* line 153: self.series_list.append(pd.Series(utt_metrics))
append(sl, row) == Append(sl, row)

\* MetricTracker.__call__(mix=, clean=, estimate=, filename=, **kwargs)
\* last keeps the arguments, the outcome, series_list as it was before the
\* call, and whether the operation before this one was a call that raised
MetricTracker_call(utt, filename, kwargs) ==
    LET r == get_metrics(utt, sample_rate, metrics_list, average,
                         compute_permutation, ignore_metrics_errors, filename)
        args == [op |-> "call", utt |-> utt, filename |-> filename,
                 kwargs |-> kwargs, pre |-> series_list,
                 prev_failed |-> (last.op = "call" /\ last.exc # NoExc)]
    IN  /\ Len(built) < MaxRows
        /\ IF r.exc # NoExc
           THEN /\ UNCHANGED <<series_list, built>>
                /\ last' = [exc |-> r.exc] @@ args
           ELSE LET utt_metrics == update(r.ret, kwargs)
                IN  /\ series_list' = append(series_list, utt_metrics)
                    /\ built' = Append(built, utt_metrics)
                    /\ last' = [exc |-> NoExc, metrics |-> r.ret] @@ args
        /\ UNCHANGED <<cfgvars, gm>>

Blank == [t |-> "blank"]

\* DataFrame.to_csv: the header and one line per row, nulls left blank
CsvTable(sl) ==
    [header |-> Columns(sl),
     lines |-> [i \in 1..Len(sl) |->
                  [k \in Columns(sl) |->
                      IF k \notin DOMAIN sl[i] \/ IsNull(sl[i][k]) THEN Blank
                      ELSE sl[i][k]]]]

\* an export that consumes the rows it writes
to_csv_drain(writable) ==
    /\ last' = IF writable
               THEN [op |-> "to_csv", exc |-> NoExc, out |-> CsvTable(series_list)]
               ELSE [op |-> "to_csv", exc |-> [type |-> "OSError"]]
    /\ series_list' = IF writable THEN <<>> ELSE series_list
    /\ UNCHANGED <<cfgvars, built, gm>>

\* MetricTracker.to_csv(path_or_buf); writable: the destination can be written
to_csv(writable) ==
    /\ last' = IF writable
               THEN [op |-> "to_csv", exc |-> NoExc, out |-> CsvTable(series_list)]
               ELSE [op |-> "to_csv", exc |-> [type |-> "OSError"]]
    /\ UNCHANGED <<cfgvars, series_list, built, gm>>

\* lines 165-169, from the i-th metric name on
RECURSIVE ReportLoop(_, _, _, _)
ReportLoop(sl, names, i, final_results) ==
    IF i > Len(names) THEN [exc |-> NoExc, final_results |-> final_results]
    ELSE
      LET metric_name == names[i]
          input_metric_name == "input_" \o metric_name
      IN  IF metric_name \notin Columns(sl)
          THEN [exc |-> [type |-> "KeyError", key |-> metric_name]]
          ELSE IF input_metric_name \notin Columns(sl)
          THEN [exc |-> [type |-> "KeyError", key |-> input_metric_name]]
          ELSE
          IF \/ SubRaises(Column(sl, metric_name), Column(sl, input_metric_name))
             \/ MeanRaises(Column(sl, metric_name))
          THEN [exc |-> [type |-> "TypeError", key |-> metric_name]]
          ELSE
            LET ldf == SeriesSub(Column(sl, metric_name),
                                 Column(sl, input_metric_name))
            IN  ReportLoop(sl, names, i + 1,
                    setitem(setitem(final_results, metric_name,
                                    SeriesMean(Column(sl, metric_name))),
                            metric_name \o "_imp", SeriesMean(ldf)))

EndsWith(s, suffix) ==
    /\ Len(s) >= Len(suffix)
    /\ SubSeq(s, Len(s) - Len(suffix) + 1, Len(s)) = suffix

\* line 171
DumpPath(dump_path) ==
    IF EndsWith(dump_path.v, ".json") THEN dump_path.v
    ELSE dump_path.v \o ".json"

NoWrite == [written |-> FALSE]

DumpPaths == {None, Str("report"), Str("report.json")}

\* a report that opens and writes dump_path before it computes anything
final_report_dump_first(dump_path, writable) ==
    LET r == ReportLoop(series_list, Iterate(metrics_list), 1, EmptyDict)
        args == [op |-> "final_report", dump_path |-> dump_path]
        wrote == IF dump_path # None /\ writable
                 THEN [written |-> TRUE, path |-> DumpPath(dump_path),
                       content |-> EmptyDict]
                 ELSE NoWrite
    IN  /\ last' =
              IF r.exc # NoExc THEN [exc |-> r.exc, dump |-> wrote] @@ args
              ELSE [exc |-> NoExc, dump |-> wrote, ret |-> r.final_results]
                   @@ args
        /\ UNCHANGED <<cfgvars, series_list, built, gm>>

\* MetricTracker.final_report(dump_path); writable: open(dump_path, "w") succeeds
\* last.dump is what the call wrote: nothing, or final_results at the path
final_report(dump_path, writable) ==
    LET r == ReportLoop(series_list, Iterate(metrics_list), 1, EmptyDict)
        args == [op |-> "final_report", dump_path |-> dump_path]
    IN  /\ last' =
              IF r.exc # NoExc
              THEN [exc |-> r.exc, dump |-> NoWrite] @@ args
              ELSE IF dump_path = None
              THEN [exc |-> NoExc, dump |-> NoWrite, ret |-> r.final_results]
                   @@ args
              ELSE IF ~writable
              THEN [exc |-> [type |-> "OSError"], dump |-> NoWrite] @@ args
              ELSE [exc |-> NoExc,
                    dump |-> [written |-> TRUE, path |-> DumpPath(dump_path),
                              content |-> r.final_results],
                    ret |-> r.final_results] @@ args
        /\ UNCHANGED <<cfgvars, series_list, built, gm>>

-----------------------------------------------------------------------------
(* One utterance, scored by get_metrics directly and recorded with a tracker *)
(* that was built with the same settings                                     *)

Requests ==
    { MStr("all"), MStr("sdr"), MStr("wer"), MTuple(ALL_METRICS),
      MList(<<"si_sdr">>), MList(<<"sdr", "stoi">>),
      MList(<<"stoi", "sdr", "sdr">>), MList(<<"pesq", "wer">>), MList(<<>>) }

\* a table with a different value under every metric name
ScalarTable(base, failing) ==
    [m \in Range(ALL_METRICS) |->
        IF m \in failing THEN Raises
        ELSE Int2Num(base + (CHOOSE i \in 1..Len(ALL_METRICS) : ALL_METRICS[i] = m))]

ArrayTable(base, failing) ==
    [m \in Range(ALL_METRICS) |->
        IF m \in failing THEN Raises
        ELSE LET i == CHOOSE j \in 1..Len(ALL_METRICS) : ALL_METRICS[j] = m
             IN  Arr(<<base + i, base + i + 1>>)]

DirectUtts ==
    { [input |-> ScalarTable(0, fi), output |-> ScalarTable(10, fo)] :
        fi \in SUBSET {"sdr", "stoi"}, fo \in SUBSET {"sdr", "stoi"} }
    \cup
    { [input |-> ArrayTable(0, fi), output |-> ArrayTable(10, fo)] :
        fi \in SUBSET {"sdr", "stoi"}, fo \in SUBSET {"sdr", "stoi"} }

DirectFilenames == {None, Str(""), Str("a.wav")}

InitGM ==
    /\ sample_rate \in SampleRates
    /\ metrics_list \in Requests
    /\ average \in BOOLEAN
    /\ compute_permutation \in PermutationFlags
    /\ ignore_metrics_errors \in BOOLEAN
    /\ series_list = <<>>
    /\ built = <<>>
    /\ gm \in {[done |-> FALSE, utt |-> u, filename |-> f] :
                  u \in DirectUtts, f \in DirectFilenames}
    /\ last = [op |-> "init"]

\* get_metrics(mix, clean, estimate, sample_rate=..., filename=...)
get_metrics_direct ==
    /\ gm.done = FALSE
    /\ gm' = [done |-> TRUE, utt |-> gm.utt, filename |-> gm.filename]
             @@ get_metrics(gm.utt, sample_rate, metrics_list, average,
                            compute_permutation, ignore_metrics_errors,
                            gm.filename)
    /\ UNCHANGED <<cfgvars, series_list, built, last>>

NextGM ==
    \/ get_metrics_direct
    \/ MetricTracker_call(gm.utt, gm.filename, EmptyDict)

SpecGM == InitGM /\ [][NextGM]_vars

Init == MetricTracker_init

Next ==
    \/ \E utt \in TrackerUtts, filename \in Filenames, kwargs \in ExtraFields :
          MetricTracker_call(utt, filename, kwargs)
    \/ \E writable \in BOOLEAN : to_csv(writable)
    \/ \E dump_path \in DumpPaths :
          \E writable \in (IF dump_path = None THEN {TRUE} ELSE BOOLEAN) :
              final_report(dump_path, writable)

Spec == Init /\ [][Next]_vars

-----------------------------------------------------------------------------
(* Properties *)

\* the metric names a request stands for: "all" is the six supported metrics,
\* any other string that one metric, a list or tuple its items
RequestedNames(ml) ==
    IF ml.t = "str"
    THEN IF ml.v = "all"
         THEN {"si_sdr", "sdr", "sir", "sar", "stoi", "pesq"}
         ELSE {ml.v}
    ELSE Range(ml.v)

LookupFails(src, m) == m \notin DOMAIN src \/ src[m] = Raises

\* the keys of the result whose lookup fails for this utterance
FailingKeys(utt, ml) ==
    {"input_" \o m : m \in {x \in RequestedNames(ml) : LookupFails(utt.input, x)}}
    \cup {m \in RequestedNames(ml) : LookupFails(utt.output, m)}

LastRow == series_list[Len(series_list)]

\* the plain mean of a column of numbers
MeanOf(col) == NumDivInt(SumNums(col), Len(col))

\* x - y on report entries, not-a-number when either is
ReportSub(x, y) == IF IsNull(x) \/ IsNull(y) THEN NaN ELSE NumSub(x, y)

\* C1: after N successful record calls, interleaved in any way with to_csv
\* and final_report, series_list holds exactly the N rows those calls built,
\* in call order, none reordered, deduplicated, removed or replaced.
C1_RowsInCallOrder ==
    /\ Len(series_list) = Len(built)
    /\ \A i \in 1..Len(built) : series_list[i] = built[i]

C1_Witness ==
    /\ Len(series_list) >= 2
    /\ series_list[1] = series_list[2]
    /\ last.op = "final_report"

\* C2: in strict mode a record call whose utterance has a failing requested
\* lookup raises a RuntimeError naming one of the failing keys, returns no
\* mapping and leaves series_list as it was; a call without a failing lookup
\* appends its row, also right after a call that raised.
C2_StrictFailureAppendsNothing ==
    (last.op = "call" /\ ~ignore_metrics_errors) =>
        IF FailingKeys(last.utt, metrics_list) # {}
        THEN /\ last.exc.type = "RuntimeError"
             /\ last.exc.key \in FailingKeys(last.utt, metrics_list)
             /\ last.exc.msg = "Error computing " \o last.exc.key \o " for "
                    \o (IF last.filename = None THEN "<unknown file>"
                        ELSE last.filename.v)
             /\ "metrics" \notin DOMAIN last
             /\ series_list = last.pre
        ELSE /\ last.exc = NoExc
             /\ series_list = Append(last.pre, LastRow)
             /\ \A k \in DOMAIN last.metrics \ DOMAIN last.kwargs :
                    LastRow[k] = last.metrics[k]

C2_Witness ==
    /\ last.op = "call"
    /\ ~ignore_metrics_errors
    /\ last.exc = NoExc
    /\ last.prev_failed
    /\ Len(last.pre) >= 1

\* the value get_metrics returns for a looked-up value
Returned(v, avg) ==
    IF avg /\ v.t = "arr" THEN Num(SumInts(v.v), Len(v.v)) ELSE v

\* C3: in tolerant mode get_metrics never raises, whatever subset of the
\* lookups fails: every requested key, prefixed and unprefixed, is in the
\* result, null where its lookup failed and otherwise the looked-up value
\* (its mean when averaging reduces an array); the tracker's record call on
\* that utterance appends exactly one row, the mapping get_metrics returned.
C3_TolerantNullsFailures ==
    ignore_metrics_errors =>
        /\ gm.done =>
             /\ gm.exc = NoExc
             /\ \A m \in RequestedNames(metrics_list) :
                  /\ {m, "input_" \o m} \subseteq DOMAIN gm.ret
                  /\ gm.ret["input_" \o m] =
                        IF LookupFails(gm.utt.input, m) THEN None
                        ELSE Returned(gm.utt.input[m], average)
                  /\ gm.ret[m] =
                        IF LookupFails(gm.utt.output, m) THEN None
                        ELSE Returned(gm.utt.output[m], average)
        /\ last.op = "call" =>
             /\ last.exc = NoExc
             /\ Len(series_list) = Len(last.pre) + 1
             /\ series_list = Append(last.pre, last.metrics)
             /\ gm.done => last.metrics = gm.ret

C3_Witness ==
    /\ ignore_metrics_errors
    /\ metrics_list = MList(<<"sdr", "stoi">>)
    /\ gm.done
    /\ last.op = "call"
    /\ gm.ret["input_sdr"] = None
    /\ gm.ret["stoi"] = None
    /\ gm.ret["sdr"] # None
    /\ gm.ret["input_stoi"] # None
    /\ Len(series_list) = 1

\* C4: when no requested lookup fails, get_metrics returns a mapping whose
\* keys are exactly m and "input_" + m for the requested metrics m: twice as
\* many keys as metrics, 2 for a single-string request, 12 for "all".
C4_ExactKeys ==
    (gm.done /\ FailingKeys(gm.utt, metrics_list) = {}) =>
        /\ gm.exc = NoExc
        /\ DOMAIN gm.ret = RequestedNames(metrics_list)
               \cup {"input_" \o m : m \in RequestedNames(metrics_list)}
        /\ Cardinality(DOMAIN gm.ret) = 2 * Cardinality(RequestedNames(metrics_list))
        /\ (metrics_list.t = "str" /\ metrics_list.v # "all") =>
               Cardinality(DOMAIN gm.ret) = 2
        /\ metrics_list = MStr("all") => Cardinality(DOMAIN gm.ret) = 12

C4_Witness ==
    /\ gm.done
    /\ metrics_list = MStr("all")
    /\ gm.exc = NoExc
    /\ Cardinality(DOMAIN gm.ret) = 12

\* every **kwargs field of the last record call is in the appended row with
\* the caller's value, and is a column of the export with that value
ExtraFieldsInRow ==
    \A k \in DOMAIN last.kwargs :
        /\ k \in DOMAIN LastRow
        /\ LastRow[k] = last.kwargs[k]
        /\ k \in CsvTable(series_list).header
        /\ CsvTable(series_list).lines[Len(series_list)][k] = last.kwargs[k]

\* C5 as stated: every extra field of a record call, filename included, is
\* verbatim in the appended row; on a collision the caller's value wins.
C5_FilenameInRow ==
    (last.op = "call" /\ last.exc = NoExc) =>
        /\ ExtraFieldsInRow
        /\ last.filename # None =>
              /\ "filename" \in DOMAIN LastRow
              /\ LastRow["filename"] = last.filename

\* C5: every **kwargs field of a record call is verbatim in the appended row
\* and a column of the export, the caller's value winning on a collision;
\* filename is the diagnostic label only and adds no key to the row.
C5_ExtraFieldsInRow ==
    (last.op = "call" /\ last.exc = NoExc) =>
        /\ ExtraFieldsInRow
        /\ DOMAIN LastRow = DOMAIN last.metrics \cup DOMAIN last.kwargs
        /\ "filename" \notin DOMAIN LastRow

C5_Witness ==
    /\ last.op = "call"
    /\ last.exc = NoExc
    /\ last.filename = Str("a.wav")
    /\ "sdr" \in DOMAIN last.kwargs
    /\ "sdr" \in DOMAIN last.metrics
    /\ last.metrics["sdr"] # last.kwargs["sdr"]

\* every row has numbers under m and "input_" + m for every configured metric
AllNumeric ==
    \A m \in RequestedNames(metrics_list) : \A i \in 1..Len(series_list) :
        /\ {m, "input_" \o m} \subseteq DOMAIN series_list[i]
        /\ IsNum(series_list[i][m])
        /\ IsNum(series_list[i]["input_" \o m])

\* C6: on a tracker with at least one row and numbers under m and
\* "input_" + m in every row for every configured metric m, final_report
\* returns report[m] = the mean of column m and report[m + "_imp"] = the
\* mean over the rows of row[m] - row["input_" + m].
C6_ReportIsMeans ==
    (/\ last.op = "final_report"
     /\ last.exc.type # "OSError"
     /\ series_list # <<>>
     /\ AllNumeric) =>
        /\ last.exc = NoExc
        /\ \A m \in RequestedNames(metrics_list) :
             /\ {m, m \o "_imp"} \subseteq DOMAIN last.ret
             /\ last.ret[m] =
                   MeanOf([i \in 1..Len(series_list) |-> series_list[i][m]])
             /\ last.ret[m \o "_imp"] =
                   MeanOf([i \in 1..Len(series_list) |->
                            NumSub(series_list[i][m],
                                   series_list[i]["input_" \o m])])

NullsPaired(m) ==
    \A i \in 1..Len(series_list) :
        IsNull(Column(series_list, m)[i])
            <=> IsNull(Column(series_list, "input_" \o m)[i])

C8_ExportAndReportKeepState ==
    [][last'.op \in {"to_csv", "final_report"} =>
          UNCHANGED <<sample_rate, metrics_list, average, compute_permutation,
                      ignore_metrics_errors, series_list>>]_vars

C8_Witness ==
    /\ last.op \in {"to_csv", "final_report"}
    /\ last.exc # NoExc
    /\ Len(series_list) >= 2

\* C9: for every metric configuration record accepts, final_report iterates
\* over the metric names record computed: after a successful record it
\* returns exactly the keys m and m + "_imp" for the metrics m of the rows
\* and looks up no column record did not produce.
C9_ReportIteratesRecordedMetrics ==
    (/\ last.op = "final_report"
     /\ last.exc.type # "OSError"
     /\ series_list # <<>>) =>
        /\ Range(Iterate(metrics_list)) = RequestedNames(metrics_list)
        /\ last.exc = NoExc
        /\ DOMAIN last.ret = RequestedNames(metrics_list)
               \cup {m \o "_imp" : m \in RequestedNames(metrics_list)}

\* C10: final_report on a tracker without rows either raises, and then
\* writes nothing to dump_path, or returns not-a-number for every entry.
C10_EmptyReportIsNaNOrError ==
    (last.op = "final_report" /\ series_list = <<>>) =>
        \/ last.exc # NoExc /\ last.dump = NoWrite
        \/ /\ last.exc = NoExc
           /\ \A k \in DOMAIN last.ret : last.ret[k] = NaN

C10_Witness ==
    /\ last.op = "final_report"
    /\ series_list = <<>>
    /\ last.dump_path # None
    /\ last.exc # NoExc
    /\ last.exc.type = "KeyError"

====
